---- MODULE Spec2Model ----
(***************************************************************************)
(* Rebalance orchestration core of Dalio Lite: the cross-process state     *)
(* lock (state_lock.py), the daily check and the two-phase rebalance       *)
(* (dalio_lite.py), the transaction ledger (transaction_log.py), the       *)
(* marker backup (backup_manager.py) and the metrics                       *)
(* (metrics_collector.py).                                                 *)
(*                                                                         *)
(* Money is kept in cents, weights in percent and time in whole days, so   *)
(* that every comparison of the source is an integer comparison.           *)
(***************************************************************************)
EXTENDS Integers, Sequences, FiniteSets, TLC

\* ------------------------------------------------------------------ bounds

\* The last day of the clock.
MaxTime == 2
\* Invocations of run_daily_check and execute_rebalance, over both programs.
MaxInvocations == 2

\* ------------------------------------------------------------ configuration

\* The two programs that share the state directory.
Procs == {"dashboard", "autopilot"}

\* config['allocation'] in its file order (percent).
TickerOrder == <<"VTI", "TLT", "GLD">>
Tickers == {TickerOrder[i] : i \in 1..Len(TickerOrder)}
Allocation == ("VTI" :> 50) @@ ("TLT" :> 30) @@ ("GLD" :> 20)

\* config['rebalancing'] and config['risk'].
MinTradeUsd == 10
DriftThresholdPct == 5
MinDaysBetween == 1
MaxDailyLossPct == 3

\* Exceptions an I/O step may raise: RuntimeError is the type the lock layer
\* uses for its timeout, Exception stands for every other type.
ExcKinds == {"RuntimeError", "Exception"}

\* ------------------------------------------------------------------ broker

Account(pv, eq, last, vti, tlt, gld) ==
    [portfolio_value |-> pv, equity |-> eq, last_equity |-> last,
     market_value |-> ("VTI" :> vti) @@ ("TLT" :> tlt) @@ ("GLD" :> gld)]

\* What the broker may answer to get_account / get_all_positions (dollars).
BrokerStates ==
    { Account(10000, 10000, 10000, 6500, 2000, 1500),  \* one sell, two buys
      Account(10000, 10000, 10000, 5600, 3500,  900),  \* two sells, one buy
      Account(10000, 10000, 10000, 5005, 2995, 2000),  \* below the minimum trade
      Account(10000,  9500, 10000, 6500, 2000, 1500),  \* a 5% daily loss
      Account(10000, 10000, 10000, 5010, 2995, 1995),  \* one sell of the minimum
      Account(    0,     0,     0,    0,    0,    0),  \* an empty account
      [Account(10000, 10000, 10000, 5000, 3000, 1995)  \* a holding outside the
          EXCEPT !.market_value = @ @@ ("SPY" :> 5)] }  \* allocation

Abs(x) == IF x < 0 THEN -x ELSE x

\* Weights are kept as integers: a weight w of a portfolio worth pv dollars
\* is held as w * 100 * pv, which for a position is its market value in
\* cents, and for a target of a percent is a * pv. With pv = 0 the code has
\* no positions at all and a weight w is held as 100 * w.
WeightScale(b) == IF b.portfolio_value = 0 THEN 1 ELSE b.portfolio_value

\* config['allocation'][t] on that scale.
TargetWeight(b, t) == Allocation[t] * WeightScale(b)

\* get_current_positions: nothing for a zero portfolio value; otherwise
\* every position the broker holds, and 0 for each tracked ticker it does
\* not hold.
GetCurrentPositions(b) ==
    IF b.portfolio_value = 0 THEN <<>>
    ELSE [s \in DOMAIN b.market_value \cup Tickers |->
            IF s \in DOMAIN b.market_value THEN 100 * b.market_value[s] ELSE 0]

\* Faulty variant of CurrentWeight: the holdings are ignored.
CurrentWeightIgnored(current, t) == 0

\* current.get(ticker, 0.0).
CurrentWeight(current, t) == IF t \in DOMAIN current THEN current[t] ELSE 0

\* Faulty variant of BelowMinTrade: no order is too small.
BelowMinTradeNever(order_amount) == FALSE

\* Faulty variant of BelowMinTrade: an order of exactly the minimum is dropped.
BelowMinTradeInclusive(order_amount) == Abs(order_amount) <= 100 * MinTradeUsd

\* abs(order_amount) < min_trade, in cents.
BelowMinTrade(order_amount) == Abs(order_amount) < 100 * MinTradeUsd

\* calculate_rebalance_orders, in cents: target value minus current value,
\* zeroed below the minimum trade. A zero portfolio has no positions at all.
OrderAmount(b, t) ==
    LET current_value == CurrentWeight(GetCurrentPositions(b), t)
        order_amount  == b.portfolio_value * Allocation[t] - current_value
    IN  IF BelowMinTrade(order_amount) THEN 0 ELSE order_amount

CalculateRebalanceOrders(b) == [t \in Tickers |-> OrderAmount(b, t)]

NoOrders == [t \in Tickers |-> 0]

\* One entry of calculate_drift (current - target), on the weight scale.
DriftTimesValue(b, t) == CurrentWeight(GetCurrentPositions(b), t) - TargetWeight(b, t)

\* calculate_drift: an entry for each ticker of the allocation.
CalculateDrift(b) == [t \in Tickers |-> DriftTimesValue(b, t)]

\* Faulty variant of ExceedsThreshold: a drift equal to the threshold counts.
ExceedsThresholdInclusive(d, b) == Abs(d) >= DriftThresholdPct * WeightScale(b)

\* abs(d) > threshold.
ExceedsThreshold(d, b) == Abs(d) > DriftThresholdPct * WeightScale(b)

\* max_drift > threshold: some ticker's drift exceeds it.
DriftExceeds(b) == \E t \in Tickers : ExceedsThreshold(DriftTimesValue(b, t), b)

\* Clock readings per day: datetime differences are finer than a day.
TicksPerDay == 2

\* timedelta.days of a difference of clock readings.
WholeDays(elapsed) == elapsed \div TicksPerDay

\* max(abs(d) for d in drift.values()).
MaxDrift(drift) ==
    CHOOSE m \in {Abs(drift[t]) : t \in DOMAIN drift} :
        \A t \in DOMAIN drift : Abs(drift[t]) <= m

\* Faulty variant of NeedsRebalancingResult: the drift is looked at before
\* the cooldown.
NeedsRebalancingDriftFirst(last, today, b) ==
    IF DriftExceeds(b)
    THEN [needs |-> TRUE,
          reason |-> [kind |-> "drift", max_drift |-> MaxDrift(CalculateDrift(b)),
                      triggers |-> {t \in Tickers :
                                      ExceedsThreshold(DriftTimesValue(b, t), b)}]]
    ELSE IF last # 0 /\ WholeDays(today - last) < MinDaysBetween
    THEN [needs |-> FALSE,
          reason |-> [kind |-> "cooldown", days_since |-> WholeDays(today - last),
                      min_days |-> MinDaysBetween]]
    ELSE [needs |-> FALSE,
          reason |-> [kind |-> "within", max_drift |-> MaxDrift(CalculateDrift(b))]]

\* needs_rebalancing with its reason: the cooldown first, then the drift.
\* `last` and `today` are clock readings, `last` 0 for None.
NeedsRebalancingResult(last, today, b) ==
    IF last # 0 /\ WholeDays(today - last) < MinDaysBetween
    THEN [needs |-> FALSE,
          reason |-> [kind |-> "cooldown", days_since |-> WholeDays(today - last),
                      min_days |-> MinDaysBetween]]
    ELSE IF DriftExceeds(b)
    THEN [needs |-> TRUE,
          reason |-> [kind |-> "drift", max_drift |-> MaxDrift(CalculateDrift(b)),
                      triggers |-> {t \in Tickers :
                                      ExceedsThreshold(DriftTimesValue(b, t), b)}]]
    ELSE [needs |-> FALSE,
          reason |-> [kind |-> "within", max_drift |-> MaxDrift(CalculateDrift(b))]]

\* needs_rebalancing as the daily check uses it; the rebalance machine reads
\* the clock in whole days.
NeedsRebalancing(last, today, b) ==
    NeedsRebalancingResult(TicksPerDay * last, TicksPerDay * today, b).needs

\* Faulty variant of CircuitBreakerTriggered: the ratio is taken whatever the
\* prior-day equity.
CircuitBreakerUnguarded(b) ==
    100 * (b.equity - b.last_equity) <= 0 - MaxDailyLossPct * b.last_equity

\* check_circuit_breakers.
CircuitBreakerTriggered(b) ==
    /\ b.last_equity > 0
    /\ 100 * (b.equity - b.last_equity) <= 0 - MaxDailyLossPct * b.last_equity

\* ------------------------------------------------------------------- state

VARIABLES
    pc,             \* where each program is
    entry,          \* "daily" (run_daily_check) or "direct" (execute_rebalance)
    dry_run,
    lockCount,      \* the FileLock of each program: how often it holds the lock
    orders,         \* the intents of the attempt
    tx_id,          \* the attempt's transaction id, 0 before begin_transaction
    sell_results,
    buy_results,
    all_success,
    last_rebalance, \* self.last_rebalance, 0 for None
    ret,            \* what execute_rebalance returned
    exc,            \* the exception travelling to, or seen by, the caller
    invocations,    \* invocations started so far
    ledger,         \* state/transactions: record i is transaction i
    markerFile,     \* state/last_rebalance.json, 0 while it does not exist
    backups,        \* backups/: the copies with their checksum sidecars
    notified,       \* the _notify calls of each program's current invocation
    cb_increments,  \* how often that invocation incremented the counter
                    \* circuit_breaker_triggered
    breaker_checked,\* what that invocation's check_circuit_breakers said:
                    \* "clear", "triggered", "none" while it has not run
    marker_before,  \* self.last_rebalance and the marker file as the
                    \* running attempt found them at begin_transaction
    cooldown_from,  \* when each program's last attempt that returned true
                    \* set its marker, 0 for none
    now             \* the day

\* One call of _execute_order, looked at on its own.
VARIABLES
    max_retries,    \* the argument
    xpc,            \* "idle" (no call), "loop", "returned"; for a call of
                    \* _is_retryable_error alone "classify", "classified"
    attempt,        \* the loop variable
    quote_fetches,  \* calls of get_stock_latest_quote
    submissions,    \* calls of submit_order
    broker_order,   \* the id of the order the broker accepted, "none" without
    sleeps,         \* the time.sleep durations, in order
    last_error,     \* str(e) of the last exception, <<>> for None
    retryable,      \* what _is_retryable_error said of it, "none" before
    order_result,   \* the OrderResult returned, status "none" before
    order_metrics   \* what the call has added to each counter, and the
                    \* samples it has added to order_execution_duration_ms

\* One decision of the drift engine, looked at on its own.
VARIABLES
    broker,         \* what the broker answers during the calls
    last_run,       \* self.last_rebalance as a clock reading, 0 for None
    clock,          \* datetime.now() as a clock reading
    drift,          \* what calculate_drift returned, <<>> before
    decision,       \* what needs_rebalancing returned, reason "none" before
    plan,           \* what calculate_rebalance_orders returned, <<>> before
    breaker         \* what check_circuit_breakers returned and how often it
                    \* incremented circuit_breaker_triggered, "none" before

\* The file of one transaction record, looked at write by write.
VARIABLES
    intents,        \* the target orders of the attempt
    lpc,            \* where the attempt is: "idle" (none), "begin", "execute",
                    \* "record", "done", "killed"; "<x>_dump" inside _save_log
                    \* between the open and the end of the dump
    completed,      \* the results _execute_order has returned, in order
    log_entry,      \* the entry _save_log is writing
    log_file        \* state/transactions/<id>.json

\* The metrics of the two programs and the metrics file, looked at write by
\* write.
VARIABLES
    counters,       \* metrics.counters of each program
    mpc,            \* where each program is: "idle" (not looked at), "run",
                    \* and inside flush "opened", "dumped"
    fd,             \* the file each program has open for writing, 0 for none
    inodes,         \* the files of the directory, whatever their names
    tmp_name,       \* the file named metrics.tmp, 0 while there is none
    target_name,    \* the file named metrics.json, 0 while there is none
    last_written,   \* the counter values of the last dump of a flush
    high,           \* the highest value any dump has written of each counter
    increments_done,
    flushes_started,
    restarts_done

rebalanceVars == <<pc, entry, dry_run, lockCount, orders, tx_id, sell_results,
                   buy_results, all_success, last_rebalance, ret, exc, invocations,
                   ledger, markerFile, backups, notified, cb_increments,
                   breaker_checked, marker_before, cooldown_from, now>>

orderVars == <<max_retries, xpc, attempt, quote_fetches, submissions, broker_order,
               sleeps, last_error, retryable, order_result, order_metrics>>

\* What the rebalance machine never touches.
planVars == <<broker, last_run, clock, drift, decision, plan, breaker>>

logVars == <<intents, lpc, completed, log_entry, log_file>>

\* The files looked at on their own.
metricsVars == <<counters, mpc, fd, inodes, tmp_name, target_name, last_written,
                 high, increments_done, flushes_started, restarts_done>>

fileVars == <<logVars, metricsVars>>

callVars == <<orderVars, planVars, fileVars>>

vars == <<rebalanceVars, callVars>>

locals == <<orders, tx_id, sell_results, buy_results, all_success, marker_before>>

\* What is remembered of the invocations, apart from the notifications.
historyVars == <<cb_increments, breaker_checked, cooldown_from>>
procVars == <<locals, ret, exc>>
diskVars == <<ledger, markerFile, backups>>

\* The call has touched no metric yet.
NoMetrics ==
    [orders_executed |-> 0, api_calls_total |-> 0, orders_success |-> 0,
     orders_failed |-> 0, api_errors |-> 0, duration_samples |-> 0]

\* No _execute_order call is being looked at.
OrderIdle ==
    /\ max_retries = 0
    /\ xpc = "idle"
    /\ attempt = 0
    /\ quote_fetches = 0
    /\ submissions = 0
    /\ broker_order = "none"
    /\ sleeps = <<>>
    /\ last_error = <<>>
    /\ retryable = "none"
    /\ order_result = [status |-> "none"]
    /\ order_metrics = NoMetrics

\* No call of the drift engine is being looked at.
PlanIdle ==
    /\ broker = Account(0, 0, 0, 0, 0, 0)
    /\ last_run = 0
    /\ clock = 0
    /\ drift = <<>>
    /\ decision = [needs |-> FALSE, reason |-> [kind |-> "none"]]
    /\ plan = <<>>
    /\ breaker = [triggered |-> "none", counted |-> 0]

\* A file that does not exist, one just opened for writing (truncated), and
\* one holding the whole of `e`.
NoFile == [content |-> "absent"]
EmptyFile == [content |-> "empty"]
WholeFile(e) == [content |-> "whole", entry |-> e]

\* No transaction record is being looked at.
LogIdle ==
    /\ intents = NoOrders
    /\ lpc = "idle"
    /\ completed = <<>>
    /\ log_entry = [status |-> "none"]
    /\ log_file = NoFile

\* Two of the counters: the suffix of the first is one _load_metrics
\* restores, the suffix of the second is not.
CounterNames == {"rebalance_total", "orders_executed"}

NoCounts == [n \in CounterNames |-> 0]

\* The metrics are not being looked at.
MetricsIdle ==
    /\ counters = [p \in Procs |-> NoCounts]
    /\ mpc = [p \in Procs |-> "idle"]
    /\ fd = [p \in Procs |-> 0]
    /\ inodes = <<>>
    /\ tmp_name = 0
    /\ target_name = 0
    /\ last_written = NoCounts
    /\ high = NoCounts
    /\ increments_done = 0
    /\ flushes_started = 0
    /\ restarts_done = 0

FileIdle == LogIdle /\ MetricsIdle

\* No attempt is running.
NoMarker == [memory |-> 0, file |-> 0]

\* The two programs just constructed, nothing running.
RebalanceInit ==
    /\ pc = [p \in Procs |-> "idle"]
    /\ entry = [p \in Procs |-> "none"]
    /\ dry_run = [p \in Procs |-> FALSE]
    /\ lockCount = [p \in Procs |-> 0]
    /\ orders = [p \in Procs |-> NoOrders]
    /\ tx_id = [p \in Procs |-> 0]
    /\ sell_results = [p \in Procs |-> <<>>]
    /\ buy_results = [p \in Procs |-> <<>>]
    /\ all_success = [p \in Procs |-> TRUE]
    /\ markerFile = 0
    /\ last_rebalance = [p \in Procs |-> markerFile]
    /\ ret = [p \in Procs |-> "none"]
    /\ exc = [p \in Procs |-> "none"]
    /\ invocations = 0
    /\ ledger = <<>>
    /\ backups = {}
    /\ notified = [p \in Procs |-> <<>>]
    /\ cb_increments = [p \in Procs |-> 0]
    /\ breaker_checked = [p \in Procs |-> "none"]
    /\ marker_before = [p \in Procs |-> NoMarker]
    /\ cooldown_from = [p \in Procs |-> 0]
    /\ now = 1

Init == RebalanceInit /\ OrderIdle /\ PlanIdle /\ FileIdle

\* -------------------------------------------------------------------- lock

\* Faulty variant of LockFreeFor: a lock that admits every caller.
LockFreeForAnyone(p) == TRUE

\* FileLock: free when no other program's lock object holds it; the lock
\* object of one program counts its own nested acquisitions.
LockFreeFor(p) == \A q \in Procs \ {p} : lockCount[q] = 0

\* Faulty variant of ReleaseLock: a with-block that keeps the lock on exit.
ReleaseLockKept(lc, p) == lc

\* Leaving acquire()'s with-block, on any path.
ReleaseLock(lc, p) == [lc EXCEPT ![p] = IF @ > 0 THEN @ - 1 ELSE 0]

\* `self.lock_manager.is_locked` as execute_rebalance reads it: the method
\* is named, not called, and a bound method object is true in every state.
LockManagerIsLocked(p) == TRUE

\* Where execute_rebalance goes after reading the lock flag.
AfterLockFlag(p) == IF LockManagerIsLocked(p) THEN "plan" ELSE "acquire"

\* The with-statement of run_daily_check is the one entered with the
\* program's lock object not yet holding the lock.
OuterDaily(p) == entry[p] = "daily" /\ lockCount[p] = 0

\* execute_rebalance entered its own with-block.
InnerHeld(p) ==
    \/ entry[p] = "direct" /\ lockCount[p] >= 1
    \/ entry[p] = "daily" /\ lockCount[p] >= 2

\* The lock after execute_rebalance's own with-block, if entered, has ended.
AfterInnerExit(p) == IF InnerHeld(p) THEN ReleaseLock(lockCount, p) ELSE lockCount

\* A call of one of the two entry points.
StartInvocation(p, kind, dry) ==
    /\ invocations < MaxInvocations
    /\ invocations' = invocations + 1
    /\ entry' = [entry EXCEPT ![p] = kind]
    /\ dry_run' = [dry_run EXCEPT ![p] = dry]
    /\ ret' = [ret EXCEPT ![p] = "none"]
    /\ exc' = [exc EXCEPT ![p] = "none"]
    /\ notified' = [notified EXCEPT ![p] = <<>>]
    /\ cb_increments' = [cb_increments EXCEPT ![p] = 0]
    /\ breaker_checked' = [breaker_checked EXCEPT ![p] = "none"]
    /\ cooldown_from' = cooldown_from

\* The locals of _execute_rebalance_impl go out of scope.
ClearLocals(p) ==
    /\ orders' = [orders EXCEPT ![p] = NoOrders]
    /\ tx_id' = [tx_id EXCEPT ![p] = 0]
    /\ sell_results' = [sell_results EXCEPT ![p] = <<>>]
    /\ buy_results' = [buy_results EXCEPT ![p] = <<>>]
    /\ all_success' = [all_success EXCEPT ![p] = TRUE]
    /\ marker_before' = [marker_before EXCEPT ![p] = NoMarker]

\* _notify is called with each message of `sent`, in order.
Notify(p, sent) == notified' = [notified EXCEPT ![p] = @ \o sent]

\* _run_daily_check_impl notifies "Portfolio rebalanced" after every
\* execute_rebalance that returns, whatever it returned.
AfterRebalanceNotice(p) == IF entry[p] = "daily" THEN <<"rebalanced">> ELSE <<>>

\* The invocation is over: the program is back at its caller.
BackToCaller(p) ==
    /\ pc' = [pc EXCEPT ![p] = "idle"]
    /\ dry_run' = [dry_run EXCEPT ![p] = FALSE]

\* run_daily_check's with-block ends without an exception (the circuit
\* breaker halted, nothing to do, or execute_rebalance returned); the
\* finally clause flushes and the call returns.
LeaveDailyCheck(p, lc) ==
    /\ lockCount' = ReleaseLock(lc, p)
    /\ BackToCaller(p)

\* execute_rebalance returns `value`, having notified `sent`: its with-block,
\* when entered, ends; called from run_daily_check, the daily check then
\* ends too.
ReturnFromRebalance(p, value, sent) ==
    /\ ret' = [ret EXCEPT ![p] = value]
    /\ exc' = exc
    /\ Notify(p, sent \o AfterRebalanceNotice(p))
    /\ ClearLocals(p)
    /\ IF entry[p] = "daily"
       THEN LeaveDailyCheck(p, AfterInnerExit(p))
       ELSE lockCount' = AfterInnerExit(p) /\ BackToCaller(p)

\* An exception leaves run_daily_check's with-block: the lock is released,
\* `except RuntimeError` takes a RuntimeError, anything else goes on to the
\* caller.
PropagateFromDaily(p, kind, lc) ==
    /\ lockCount' = ReleaseLock(lc, p)
    /\ exc' = [exc EXCEPT ![p] = IF kind = "RuntimeError" THEN "none" ELSE kind]
    /\ Notify(p, IF kind = "RuntimeError" THEN <<"lock_failed">> ELSE <<>>)
    /\ BackToCaller(p)

\* An exception leaves _execute_rebalance_impl: execute_rebalance's
\* with-block, when entered, releases and its `except RuntimeError` takes a
\* RuntimeError; otherwise the exception goes on.
PropagateFromRebalance(p, kind) ==
    IF InnerHeld(p) /\ kind = "RuntimeError"
    THEN ReturnFromRebalance(p, "false", <<>>)
    ELSE /\ ret' = ret
         /\ ClearLocals(p)
         /\ IF entry[p] = "daily"
            THEN PropagateFromDaily(p, kind, AfterInnerExit(p))
            ELSE /\ lockCount' = AfterInnerExit(p)
                 /\ exc' = [exc EXCEPT ![p] = kind]
                 /\ notified' = notified
                 /\ BackToCaller(p)

\* run_daily_check: up to the with-statement.
RunDailyCheck(p) ==
    /\ pc[p] = "idle"
    /\ \E dry \in BOOLEAN : StartInvocation(p, "daily", dry)
    /\ pc' = [pc EXCEPT ![p] = "acquire"]
    /\ UNCHANGED <<lockCount, locals, last_rebalance, diskVars, now>>
    /\ UNCHANGED callVars

\* execute_rebalance called by the dashboard or by --force-rebalance.
ExecuteRebalance(p) ==
    /\ pc[p] = "idle"
    /\ \E dry \in BOOLEAN : StartInvocation(p, "direct", dry)
    /\ pc' = [pc EXCEPT ![p] = AfterLockFlag(p)]
    /\ UNCHANGED <<lockCount, locals, last_rebalance, diskVars, now>>
    /\ UNCHANGED callVars

\* acquire(): the lock is obtained.
AcquireOk(p) ==
    /\ pc[p] = "acquire"
    /\ LockFreeFor(p)
    /\ lockCount' = [lockCount EXCEPT ![p] = @ + 1]
    /\ pc' = [pc EXCEPT ![p] = IF OuterDaily(p) THEN "cb_check" ELSE "plan"]
    /\ UNCHANGED <<entry, dry_run, procVars, invocations, last_rebalance, diskVars,
                   notified, now>>
    /\ UNCHANGED <<historyVars, callVars>>

\* acquire(): the timeout passes with the lock held elsewhere; RuntimeError
\* is raised and the caller's `except RuntimeError` takes it.
AcquireTimeout(p) ==
    /\ pc[p] = "acquire"
    /\ ~LockFreeFor(p)
    /\ IF OuterDaily(p)
       THEN /\ BackToCaller(p)
            /\ Notify(p, <<"lock_failed">>)
            /\ UNCHANGED <<lockCount, locals, ret, exc>>
       ELSE ReturnFromRebalance(p, "false", <<>>)
    /\ UNCHANGED <<entry, invocations, last_rebalance, diskVars, now>>
    /\ UNCHANGED <<historyVars, callVars>>

\* Faulty variant of BreakerHalts: the check goes on after a trigger.
BreakerHaltsNever(triggered) == FALSE

\* Faulty variant of BreakerHalts: the check halts when nothing triggered.
BreakerHaltsWhenClear(triggered) == ~triggered

\* `if triggered:` ... `return` in _run_daily_check_impl.
BreakerHalts(triggered) == triggered

\* _run_daily_check_impl, step 1: check_circuit_breakers, which counts a
\* trigger, and the halt of the check when it triggered.
CheckCircuitBreakers(p) ==
    /\ pc[p] = "cb_check"
    /\ \E b \in BrokerStates, fault \in {"none"} \cup ExcKinds :
        IF fault # "none"
        THEN /\ PropagateFromDaily(p, fault, lockCount)
             /\ UNCHANGED <<cb_increments, breaker_checked>>
        ELSE /\ cb_increments' = [cb_increments EXCEPT
                    ![p] = IF CircuitBreakerTriggered(b) THEN @ + 1 ELSE @]
             /\ breaker_checked' = [breaker_checked EXCEPT
                    ![p] = IF CircuitBreakerTriggered(b) THEN "triggered" ELSE "clear"]
             /\ IF BreakerHalts(CircuitBreakerTriggered(b))
                THEN /\ LeaveDailyCheck(p, lockCount)
                     /\ Notify(p, <<"circuit_breaker">>)
                     /\ exc' = exc
                ELSE /\ pc' = [pc EXCEPT ![p] = "needs_rebal"]
                     /\ UNCHANGED <<lockCount, dry_run, exc, notified>>
    /\ UNCHANGED <<entry, locals, ret, invocations, last_rebalance, diskVars, now>>
    /\ UNCHANGED <<cooldown_from, callVars>>

\* The loop that logs the current allocation looks every position's ticker
\* up in config['allocation']: KeyError for a ticker that is not there.
PositionLogRaises(b) == \E s \in DOMAIN GetCurrentPositions(b) : s \notin Tickers

\* _run_daily_check_impl, steps 2 and 3: read the positions, log them,
\* decide, and call execute_rebalance when a rebalance is needed.
CheckRebalanceNeeded(p) ==
    /\ pc[p] = "needs_rebal"
    /\ \E b \in BrokerStates, fault \in {"none"} \cup ExcKinds :
        IF fault # "none"
        THEN PropagateFromDaily(p, fault, lockCount)
        ELSE IF PositionLogRaises(b)
        THEN PropagateFromDaily(p, "Exception", lockCount)
        ELSE IF NeedsRebalancing(last_rebalance[p], now, b)
        THEN /\ pc' = [pc EXCEPT ![p] = AfterLockFlag(p)]
             /\ UNCHANGED <<lockCount, dry_run, exc, notified>>
        ELSE LeaveDailyCheck(p, lockCount) /\ UNCHANGED <<exc, notified>>
    /\ UNCHANGED <<entry, locals, ret, invocations, last_rebalance, diskVars, now>>
    /\ UNCHANGED <<historyVars, callVars>>

\* Faulty variant of DryRunReturns: the dry_run flag is ignored.
DryRunIgnored(dry) == FALSE

\* `if dry_run:` after the plan has been logged.
DryRunReturns(dry) == dry

\* _execute_rebalance_impl up to the dry-run return.
Plan(p) ==
    /\ pc[p] = "plan"
    /\ \E b \in BrokerStates, fault \in {"none"} \cup ExcKinds :
        IF fault # "none"
        THEN PropagateFromRebalance(p, fault)
        ELSE IF DryRunReturns(dry_run[p])
        THEN ReturnFromRebalance(p, "true", <<>>)
        ELSE /\ orders' = [orders EXCEPT ![p] = CalculateRebalanceOrders(b)]
             /\ pc' = [pc EXCEPT ![p] = "begin_tx"]
             /\ UNCHANGED <<tx_id, sell_results, buy_results, all_success,
                            marker_before, ret, exc, lockCount, dry_run, notified>>
    /\ UNCHANGED <<entry, invocations, last_rebalance, diskVars, now>>
    /\ UNCHANGED <<historyVars, callVars>>

\* --------------------------------------------------------------- ledger

NoNotes == [kind |-> "none", lines |-> {}]

\* begin_transaction's entry.
NewEntry(target) ==
    [target_orders |-> target, executed_orders |-> <<>>, status |-> "in_progress",
     reconciliation_notes |-> NoNotes]

\* record_order: load, append, save.
RecordOrder(log, id, result) ==
    [log EXCEPT ![id].executed_orders = Append(@, result)]

\* complete_transaction: load, set status and notes, save.
CompleteTransaction(log, id, status, notes) ==
    [log EXCEPT ![id].status = status, ![id].reconciliation_notes = notes]

\* begin_transaction, called before the try block: what it raises leaves
\* _execute_rebalance_impl.
BeginTransaction(p) ==
    /\ pc[p] = "begin_tx"
    /\ \E fault \in BOOLEAN :
        IF fault
        THEN PropagateFromRebalance(p, "Exception") /\ ledger' = ledger
        ELSE /\ ledger' = Append(ledger, NewEntry(orders[p]))
             /\ tx_id' = [tx_id EXCEPT ![p] = Len(ledger) + 1]
             /\ marker_before' = [marker_before EXCEPT
                    ![p] = [memory |-> last_rebalance[p], file |-> markerFile]]
             /\ pc' = [pc EXCEPT ![p] = "execute"]
             /\ UNCHANGED <<orders, sell_results, buy_results, all_success, ret, exc,
                            lockCount, dry_run, notified>>
    /\ UNCHANGED <<entry, invocations, last_rebalance, markerFile, backups, now>>
    /\ UNCHANGED <<historyVars, callVars>>

\* ------------------------------------------------------------ execution

TickerIndex(t) == CHOOSE i \in 1..Len(TickerOrder) : TickerOrder[i] = t

\* Faulty variant of SortsBefore: the sell loop goes through the orders from
\* the largest amount down.
SortsBeforeDescending(o, t, u) ==
    \/ o[t] > o[u]
    \/ o[t] = o[u] /\ TickerIndex(t) < TickerIndex(u)

\* sorted(orders.items(), key=amount): ascending, equal amounts in file order.
SortsBefore(o, t, u) ==
    \/ o[t] < o[u]
    \/ o[t] = o[u] /\ TickerIndex(t) < TickerIndex(u)

\* sorted(..., reverse=True): descending, equal amounts still in file order.
SortsBeforeReversed(o, t, u) ==
    \/ o[t] > o[u]
    \/ o[t] = o[u] /\ TickerIndex(t) < TickerIndex(u)

\* Faulty variant of SellSeq: the sell loop visits the zero intents too.
SellSeqWithZero(o) ==
    LET S == {t \in Tickers : o[t] <= 0}
    IN  [i \in 1..Cardinality(S) |->
            CHOOSE t \in S : Cardinality({u \in S : SortsBefore(o, u, t)}) = i - 1]

\* The tickers the sell loop visits, in its order.
SellSeq(o) ==
    LET S == {t \in Tickers : o[t] < 0}
    IN  [i \in 1..Cardinality(S) |->
            CHOOSE t \in S : Cardinality({u \in S : SortsBefore(o, u, t)}) = i - 1]

\* The tickers the buy loop visits, in its order.
BuySeq(o) ==
    LET S == {t \in Tickers : o[t] > 0}
    IN  [i \in 1..Cardinality(S) |->
            CHOOSE t \in S : Cardinality({u \in S : SortsBeforeReversed(o, u, t)}) = i - 1]

OrderResult(t, side, amount, status) ==
    [ticker |-> t, side |-> side, amount_usd |-> amount, status |-> status]

\* Faulty variant of SellsLeft: a FAILED sell ends the sell loop.
SellsLeftUntilFailure(o, results) ==
    /\ Len(results) < Len(SellSeq(o))
    /\ \A i \in 1..Len(results) : results[i].status = "success"

\* The sell loop has a ticker left to visit; a FAILED result does not end it.
SellsLeft(o, results) == Len(results) < Len(SellSeq(o))

\* The buy loop has a ticker left to visit; a FAILED result does not end it.
BuysLeft(o, results) == Len(results) < Len(BuySeq(o))

\* Faulty variant of BuyLoopMayRun: buys interleave with sells.
BuyLoopMayRunAnytime(o, sells) == TRUE

\* The buy loop starts when the sell loop has ended.
BuyLoopMayRun(o, sells) == ~SellsLeft(o, sells)

\* Both loops have ended.
LoopsEnded(p) ==
    /\ pc[p] = "execute"
    /\ ~SellsLeft(orders[p], sell_results[p])
    /\ ~BuysLeft(orders[p], buy_results[p])

\* One pass of the sell loop: _execute_order, append, record_order, flag.
\* record_order may raise; the except clause then takes over.
ExecuteSell(p) ==
    /\ pc[p] = "execute"
    /\ SellsLeft(orders[p], sell_results[p])
    /\ LET t == SellSeq(orders[p])[Len(sell_results[p]) + 1] IN
       \E status \in {"success", "failed"}, fault \in BOOLEAN :
         LET result == OrderResult(t, "SELL", Abs(orders[p][t]), status) IN
         /\ sell_results' = [sell_results EXCEPT ![p] = Append(@, result)]
         /\ IF fault
            THEN /\ pc' = [pc EXCEPT ![p] = "handler"]
                 /\ UNCHANGED <<ledger, all_success>>
            ELSE /\ ledger' = RecordOrder(ledger, tx_id[p], result)
                 /\ all_success' = [all_success EXCEPT ![p] = @ /\ status = "success"]
                 /\ pc' = pc
    /\ UNCHANGED <<entry, dry_run, lockCount, orders, tx_id, buy_results,
                   marker_before, ret, exc, invocations, last_rebalance, markerFile,
                   backups, notified, now>>
    /\ UNCHANGED <<historyVars, callVars>>

\* One pass of the buy loop.
ExecuteBuy(p) ==
    /\ pc[p] = "execute"
    /\ BuyLoopMayRun(orders[p], sell_results[p])
    /\ BuysLeft(orders[p], buy_results[p])
    /\ LET t == BuySeq(orders[p])[Len(buy_results[p]) + 1] IN
       \E status \in {"success", "failed"}, fault \in BOOLEAN :
         LET result == OrderResult(t, "BUY", orders[p][t], status) IN
         /\ buy_results' = [buy_results EXCEPT ![p] = Append(@, result)]
         /\ IF fault
            THEN /\ pc' = [pc EXCEPT ![p] = "handler"]
                 /\ UNCHANGED <<ledger, all_success>>
            ELSE /\ ledger' = RecordOrder(ledger, tx_id[p], result)
                 /\ all_success' = [all_success EXCEPT ![p] = @ /\ status = "success"]
                 /\ pc' = pc
    /\ UNCHANGED <<entry, dry_run, lockCount, orders, tx_id, sell_results,
                   marker_before, ret, exc, invocations, last_rebalance, markerFile,
                   backups, notified, now>>
    /\ UNCHANGED <<historyVars, callVars>>

\* results_by_ticker.get(ticker, []): the results of one ticker, in order.
TickerResults(results, t) ==
    LET of_ticker(r) == r.ticker = t IN SelectSeq(results, of_ticker)

\* Faulty variant of ReconcileClass: one SUCCESS makes the ticker a success.
ReconcileClassAnySuccess(ticker_results) ==
    IF ticker_results = <<>> THEN "no_execution"
    ELSE IF \E i \in 1..Len(ticker_results) : ticker_results[i].status = "success"
    THEN "success"
    ELSE "partial_failure"

\* The note _reconcile_orders writes for a ticker with these results.
ReconcileClass(ticker_results) ==
    IF ticker_results = <<>> THEN "no_execution"
    ELSE IF \A i \in 1..Len(ticker_results) : ticker_results[i].status = "success"
    THEN "success"
    ELSE "partial_failure"

RECURSIVE CountStatus(_, _)
\* sum(1 for r in results if r.status == status).
CountStatus(results, status) ==
    IF results = <<>> THEN 0
    ELSE (IF Head(results).status = status THEN 1 ELSE 0)
         + CountStatus(Tail(results), status)

\* _reconcile_orders: one line per non-zero intent, and the summary.
ReconcileOrders(target, results) ==
    [kind |-> "reconciliation",
     lines |-> {<<t, ReconcileClass(TickerResults(results, t))>> :
                    t \in {u \in Tickers : target[u] # 0}},
     total_success |-> CountStatus(results, "success"),
     total_failed |-> CountStatus(results, "failed")]

\* sha256 of a marker file holding timestamp `content`.
CalculateChecksum(content) == 31 * content + 7

\* backup_state_file: a copy of the file and the checksum of that copy.
BackupOf(content) == [content |-> content, checksum |-> CalculateChecksum(content)]

\* _verify_checksum.
VerifyChecksum(backup) == backup.checksum = CalculateChecksum(backup.content)

\* Faulty variant of SavedMarker: the replace never takes effect.
SavedMarkerStale(outcome, old, timestamp) == old

\* The marker file after _save_rebalance_date: a failure before the replace
\* leaves the file as it was.
SavedMarker(outcome, old, timestamp) ==
    IF outcome = "write_failed" THEN old ELSE timestamp

\* Faulty variant of CommitBranch: the marker is saved whatever the results.
CommitBranchAlways(p) == LoopsEnded(p)

\* The all_success branch is taken when every order returned SUCCESS.
CommitBranch(p) == LoopsEnded(p) /\ all_success[p]

\* The all_success branch: self.last_rebalance = now and
\* _save_rebalance_date (the temp file, the replace, the backup). A failure
\* in the backup leaves the file replaced.
SaveRebalanceDate(p) ==
    /\ CommitBranch(p)
    /\ last_rebalance' = [last_rebalance EXCEPT ![p] = now]
    /\ \E outcome \in {"saved", "write_failed", "backup_failed"} :
        /\ markerFile' = SavedMarker(outcome, markerFile, now)
        /\ backups' = IF outcome = "saved" THEN backups \cup {BackupOf(markerFile')}
                      ELSE backups
        /\ pc' = [pc EXCEPT ![p] = IF outcome = "saved" THEN "complete" ELSE "handler"]
    /\ UNCHANGED <<entry, dry_run, lockCount, procVars, invocations, ledger, notified,
                   now>>
    /\ UNCHANGED <<historyVars, callVars>>

\* The status _execute_rebalance_impl gives the record on its normal path.
TerminalStatus(success) == IF success THEN "completed" ELSE "partial"

\* complete_transaction is next: after the save, or at once on the partial
\* branch.
ReadyToComplete(p) ==
    IF pc[p] = "complete" THEN TRUE ELSE LoopsEnded(p) /\ ~all_success[p]

\* complete_transaction with "completed" or "partial".
CompleteAttempt(p) ==
    /\ ReadyToComplete(p)
    /\ \E fault \in BOOLEAN :
        IF fault
        THEN /\ pc' = [pc EXCEPT ![p] = "handler"]
             /\ ledger' = ledger
        ELSE /\ ledger' = CompleteTransaction(ledger, tx_id[p],
                              TerminalStatus(all_success[p]),
                              ReconcileOrders(orders[p], sell_results[p] \o buy_results[p]))
             /\ pc' = [pc EXCEPT ![p] = "finish"]
    /\ UNCHANGED <<entry, dry_run, lockCount, procVars, invocations, last_rebalance,
                   markerFile, backups, notified, now>>
    /\ UNCHANGED <<historyVars, callVars>>

\* The notification of the normal path: success or partial failure.
OutcomeNotice(success) == IF success THEN "success" ELSE "partial"

\* `return all_success`.
ReturnValue(success) == IF success THEN "true" ELSE "false"

\* The metrics, the flush, the notification and the return.
Finish(p) ==
    /\ pc[p] = "finish"
    /\ \E fault \in BOOLEAN :
        IF fault
        THEN /\ pc' = [pc EXCEPT ![p] = "handler"]
             /\ UNCHANGED <<lockCount, dry_run, procVars, notified, cooldown_from>>
        ELSE /\ ReturnFromRebalance(p, ReturnValue(all_success[p]),
                                    <<OutcomeNotice(all_success[p])>>)
             /\ cooldown_from' = [cooldown_from EXCEPT
                    ![p] = IF all_success[p] THEN last_rebalance[p] ELSE @]
    /\ UNCHANGED <<entry, invocations, last_rebalance, diskVars, now>>
    /\ UNCHANGED <<cb_increments, breaker_checked, callVars>>

ErrorNotes == [kind |-> "unexpected_error", lines |-> {}]

\* The except clause of _execute_rebalance_impl; its own complete_transaction
\* may raise as well.
Handler(p) ==
    /\ pc[p] = "handler"
    /\ \E fault \in BOOLEAN :
        IF fault
        THEN PropagateFromRebalance(p, "Exception") /\ ledger' = ledger
        ELSE /\ ledger' = CompleteTransaction(ledger, tx_id[p], "failed", ErrorNotes)
             /\ ReturnFromRebalance(p, "false", <<"failed">>)
    /\ UNCHANGED <<entry, invocations, last_rebalance, markerFile, backups, now>>
    /\ UNCHANGED <<historyVars, callVars>>

\* The day changes.
Tick ==
    /\ now < MaxTime
    /\ now' = now + 1
    /\ UNCHANGED <<pc, entry, dry_run, lockCount, procVars, invocations, last_rebalance,
                   diskVars, notified>>
    /\ UNCHANGED <<historyVars, callVars>>

Next ==
    \/ Tick
    \/ \E p \in Procs :
        \/ RunDailyCheck(p)
        \/ ExecuteRebalance(p)
        \/ AcquireOk(p)
        \/ AcquireTimeout(p)
        \/ CheckCircuitBreakers(p)
        \/ CheckRebalanceNeeded(p)
        \/ Plan(p)
        \/ BeginTransaction(p)
        \/ ExecuteSell(p)
        \/ ExecuteBuy(p)
        \/ SaveRebalanceDate(p)
        \/ CompleteAttempt(p)
        \/ Finish(p)
        \/ Handler(p)

Spec == Init /\ [][Next]_vars

\* ------------------------------------------------------- _execute_order

\* A text is the sequence of its characters.

\* Retries looked at: max_retries from 0 up to this (the callers use 3).
MaxRetries == 3
\* Fragments an error message is put together from.
MaxFragments == 2

\* The letters str.lower() changes, each with what it becomes.
CasePairs ==
    { <<"A", "a">>, <<"B", "b">>, <<"C", "c">>, <<"D", "d">>, <<"E", "e">>, <<"F", "f">>, <<"G", "g">>, <<"H", "h">>, <<"I", "i">>, <<"J", "j">>, <<"K", "k">>, <<"L", "l">>, <<"M", "m">>,
      <<"N", "n">>, <<"O", "o">>, <<"P", "p">>, <<"Q", "q">>, <<"R", "r">>, <<"S", "s">>, <<"T", "t">>, <<"U", "u">>, <<"V", "v">>, <<"W", "w">>, <<"X", "x">>, <<"Y", "y">>, <<"Z", "z">> }

\* str.lower() of one character.
LowerChar(c) ==
    IF \E pair \in CasePairs : pair[1] = c
    THEN (CHOOSE pair \in CasePairs : pair[1] = c)[2]
    ELSE c

\* str.lower().
Lower(text) == [i \in 1..Len(text) |-> LowerChar(text[i])]

\* `pattern in text`.
Contains(text, pattern) ==
    \E i \in 0..(Len(text) - Len(pattern)) :
        \A j \in 1..Len(pattern) : text[i + j] = pattern[j]

non_retryable_patterns ==
    { <<"4", "0", "1">>,
      <<"4", "0", "3">>,
      <<"4", "0", "4">>,
      <<"4", "0", "0">>,
      <<"i", "n", "s", "u", "f", "f", "i", "c", "i", "e", "n", "t">>,
      <<"i", "n", "v", "a", "l", "i", "d", " ", "s", "y", "m", "b", "o", "l">> }

retryable_patterns ==
    { <<"t", "i", "m", "e", "o", "u", "t">>,
      <<"5", "0", "3">>,
      <<"5", "0", "0">>,
      <<"5", "0", "2">>,
      <<"4", "2", "9">>,
      <<"c", "o", "n", "n", "e", "c", "t", "i", "o", "n">>,
      <<"n", "e", "t", "w", "o", "r", "k">> }

\* Faulty variant of IsRetryableError: the retryable patterns are tried first.
IsRetryableErrorRetryableFirst(error) ==
    LET error_str == Lower(error) IN
    IF \E pattern \in retryable_patterns : Contains(error_str, pattern) THEN TRUE
    ELSE IF \E pattern \in non_retryable_patterns : Contains(error_str, pattern) THEN FALSE
    ELSE TRUE

\* _is_retryable_error.
IsRetryableError(error) ==
    LET error_str == Lower(error) IN
    IF \E pattern \in non_retryable_patterns : Contains(error_str, pattern) THEN FALSE
    ELSE IF \E pattern \in retryable_patterns : Contains(error_str, pattern) THEN TRUE
    ELSE TRUE

\* Pieces of the messages the broker's exceptions carry.
ErrorFragments ==
    { <<"4", "0", "1">>,
      <<"4", "0", "3">>,
      <<"4", "0", "4">>,
      <<"4", "0", "0">>,
      <<"I", "n", "s", "u", "f", "f", "i", "c", "i", "e", "n", "t">>,
      <<"I", "N", "V", "A", "L", "I", "D", " ", "S", "Y", "M", "B", "O", "L">>,
      <<"i", "n", "v", "a", "l", "i", "d">>,
      <<" ", "s", "y", "m", "b", "o", "l">>,
      <<"T", "i", "m", "e", "o", "u", "t">>,
      <<"5", "0", "3">>,
      <<"5", "0", "0">>,
      <<"5", "0", "2">>,
      <<"4", "2", "9">>,
      <<"C", "o", "n", "n", "e", "c", "t", "i", "o", "n">>,
      <<"n", "e", "t", "w", "o", "r", "k">>,
      <<"4", "0">>,
      <<"1">>,
      <<"e", "r", "r", "o", "r">> }

RECURSIVE MessagesOf(_)
\* The messages of exactly n fragments.
MessagesOf(n) ==
    IF n = 1 THEN ErrorFragments
    ELSE {m \o f : m \in MessagesOf(n - 1), f \in ErrorFragments}

\* str(e) of the exceptions a quote fetch or a submission may raise.
ErrorMessages == UNION {MessagesOf(n) : n \in 1..MaxFragments}

\* The messages of the exceptions raised inside one _execute_order call: a
\* server error, a timeout that also names 401, an unlisted text, a refusal.
OrderErrors ==
    { <<"5", "0", "3">>,
      <<"T", "i", "m", "e", "o", "u", "t", " ", "4", "0", "1">>,
      <<"e", "r", "r", "o", "r">>,
      <<"I", "n", "s", "u", "f", "f", "i", "c", "i", "e", "n", "t">> }

\* The ids the broker gives to the orders it accepts.
OrderIds == {"order-1", "order-2"}

\* A call of _execute_order begins, with any max_retries.
OrderInit ==
    /\ RebalanceInit
    /\ FileIdle
    /\ PlanIdle
    /\ max_retries \in 0..MaxRetries
    /\ xpc = "called"
    /\ attempt = 0
    /\ quote_fetches = 0
    /\ submissions = 0
    /\ broker_order = "none"
    /\ sleeps = <<>>
    /\ last_error = <<>>
    /\ retryable = "none"
    /\ order_result = [status |-> "none"]
    /\ order_metrics = NoMetrics

\* Faulty variant of SuccessRetryCount: the retries allowed, not those used.
SuccessRetryCountAllowed(att, allowed) == allowed

\* retry_count of a SUCCESS result.
SuccessRetryCount(att, allowed) == att

\* retry_count of a FAILED result.
FailedRetryCount(att, allowed) == allowed

\* Faulty variant of Backoff: a constant pause.
BackoffConstant(att) == 1

\* backoff = 2 ** attempt.
Backoff(att) == 2 ^ att

\* Faulty variant of RetriesAgain: every error is retried.
RetriesAgainWhatever(is_retryable, att, allowed) == att < allowed

\* Faulty variant of RetriesAgain: one retry more than allowed.
RetriesAgainOnceMore(is_retryable, att, allowed) == is_retryable /\ att < allowed + 1

\* The except clause sleeps and continues: the error is retryable and an
\* attempt is left. A non-retryable error breaks the loop.
RetriesAgain(is_retryable, att, allowed) == is_retryable /\ att < allowed

\* What the model keeps of a bool.
BoolText(b) == IF b THEN "true" ELSE "false"

\* The call up to the loop: the two counters every call increments.
OrderCallStarts ==
    /\ xpc = "called"
    /\ order_metrics' = [order_metrics EXCEPT !.orders_executed = @ + 1,
                                              !.api_calls_total = @ + 1]
    /\ xpc' = "loop"
    /\ UNCHANGED <<max_retries, attempt, quote_fetches, submissions, broker_order,
                   sleeps, last_error, retryable, order_result, rebalanceVars,
                   fileVars, planVars>>

\* One pass of the loop in which the quote and the submission go through:
\* the SUCCESS result is returned from inside the loop.
OrderAttemptSucceeds ==
    /\ xpc = "loop"
    /\ quote_fetches' = quote_fetches + 1
    /\ submissions' = submissions + 1
    /\ \E id \in OrderIds :
        /\ broker_order' = id
        /\ order_result' = [status |-> "success", order_id |-> id,
                            error_message |-> <<>>,
                            retry_count |-> SuccessRetryCount(attempt, max_retries)]
    /\ order_metrics' = [order_metrics EXCEPT !.orders_success = @ + 1,
                                              !.duration_samples = @ + 1]
    /\ xpc' = "returned"
    /\ UNCHANGED <<max_retries, attempt, sleeps, last_error, retryable, rebalanceVars, fileVars,
                   planVars>>

\* One pass of the loop in which the quote fetch or the submission raises:
\* sleep and go on, or leave the loop and return FAILED.
OrderAttemptFails ==
    /\ xpc = "loop"
    /\ \E msg \in OrderErrors, stage \in {"quote", "submit"} :
        /\ quote_fetches' = quote_fetches + 1
        /\ submissions' = IF stage = "submit" THEN submissions + 1 ELSE submissions
        /\ last_error' = msg
        /\ retryable' = BoolText(IsRetryableError(msg))
        /\ IF RetriesAgain(IsRetryableError(msg), attempt, max_retries)
           THEN /\ sleeps' = Append(sleeps, Backoff(attempt))
                /\ attempt' = attempt + 1
                /\ UNCHANGED <<xpc, order_result, order_metrics>>
           ELSE /\ xpc' = "returned"
                /\ order_metrics' = [order_metrics EXCEPT !.orders_failed = @ + 1,
                                                          !.api_errors = @ + 1]
                /\ order_result' = [status |-> "failed", order_id |-> "none",
                                    error_message |-> msg,
                                    retry_count |-> FailedRetryCount(attempt, max_retries)]
                /\ UNCHANGED <<sleeps, attempt>>
    /\ UNCHANGED <<max_retries, broker_order, rebalanceVars, fileVars, planVars>>

OrderNext == OrderCallStarts \/ OrderAttemptSucceeds \/ OrderAttemptFails

OrderSpec == OrderInit /\ [][OrderNext]_vars

\* The call runs on: nothing it waits for is withheld for ever (the quote
\* fetch and the submission return or raise, time.sleep ends).
OrderFairSpec == OrderSpec /\ WF_vars(OrderNext)

\* _is_retryable_error on its own: an exception with any of the messages.
ClassifyInit ==
    /\ RebalanceInit
    /\ FileIdle
    /\ PlanIdle
    /\ max_retries = 0
    /\ xpc = "classify"
    /\ attempt = 0
    /\ quote_fetches = 0
    /\ submissions = 0
    /\ broker_order = "none"
    /\ sleeps = <<>>
    /\ last_error \in ErrorMessages
    /\ retryable = "none"
    /\ order_result = [status |-> "none"]
    /\ order_metrics = NoMetrics

\* The call of _is_retryable_error.
ClassifyError ==
    /\ xpc = "classify"
    /\ retryable' = BoolText(IsRetryableError(last_error))
    /\ xpc' = "classified"
    /\ UNCHANGED <<max_retries, attempt, quote_fetches, submissions, broker_order,
                   sleeps, last_error, order_result, order_metrics, rebalanceVars,
                   fileVars, planVars>>

ClassifyNext == ClassifyError

ClassifySpec == ClassifyInit /\ [][ClassifyNext]_vars

\* --------------------------------------------------------- drift engine

\* The clock readings looked at.
MaxTicks == 4

\* What the broker may hold besides the tickers of the allocation.
Symbols == Tickers \cup {"SPY"}

\* Market values (dollars) a position may have: at the target, off by less
\* than, exactly and more than the minimum trade, off by exactly and by more
\* than the drift threshold.
HeldValues ==
    ("VTI" :> {4990, 4995, 5000, 5500, 5510}) @@ ("TLT" :> {2500, 3000, 3005}) @@
    ("GLD" :> {900, 2000}) @@ ("SPY" :> {1000})

RECURSIVE SumOver(_, _)
\* The sum of f over the set S of arguments.
SumOver(f, S) ==
    IF S = {} THEN 0
    ELSE LET s == CHOOSE x \in S : TRUE IN f[s] + SumOver(f, S \ {s})

\* The positions of an account worth pv dollars: any of the symbols, held or
\* not, the rest being cash.
Holdings(pv) ==
    UNION { {mv \in [D -> UNION {HeldValues[s] : s \in D}] :
                /\ \A s \in D : mv[s] \in HeldValues[s]
                /\ SumOver(mv, D) <= pv} : D \in SUBSET Symbols }

\* What the broker may answer to the drift engine: a funded account with any
\* such positions, or an account worth nothing.
PlanSnapshots ==
    { [portfolio_value |-> 10000, equity |-> 10000, last_equity |-> 10000,
       market_value |-> mv] : mv \in Holdings(10000) }
    \cup { [portfolio_value |-> 0, equity |-> 0, last_equity |-> 0,
            market_value |-> <<>>] }

\* The drift engine is about to be called, with any answer of the broker, the
\* marker unset or set, and the clock at or after the marker.
PlanInit ==
    /\ RebalanceInit
    /\ FileIdle
    /\ OrderIdle
    /\ broker \in PlanSnapshots
    /\ last_run \in 0..MaxTicks
    /\ clock \in 1..MaxTicks
    /\ last_run <= clock
    /\ drift = <<>>
    /\ decision = [needs |-> FALSE, reason |-> [kind |-> "none"]]
    /\ plan = <<>>
    /\ breaker = [triggered |-> "none", counted |-> 0]

\* calculate_drift is called.
CallCalculateDrift ==
    /\ DOMAIN drift = {}
    /\ drift' = CalculateDrift(broker)
    /\ UNCHANGED <<breaker, broker, last_run, clock, decision, plan, rebalanceVars, fileVars, orderVars>>

\* needs_rebalancing is called.
CallNeedsRebalancing ==
    /\ decision.reason.kind = "none"
    /\ decision' = NeedsRebalancingResult(last_run, clock, broker)
    /\ UNCHANGED <<breaker, broker, last_run, clock, drift, plan, rebalanceVars, fileVars, orderVars>>

\* calculate_rebalance_orders is called.
CallCalculateRebalanceOrders ==
    /\ DOMAIN plan = {}
    /\ plan' = CalculateRebalanceOrders(broker)
    /\ UNCHANGED <<breaker, broker, last_run, clock, drift, decision, rebalanceVars, fileVars, orderVars>>

PlanNext ==
    \/ CallCalculateDrift
    \/ CallNeedsRebalancing
    \/ CallCalculateRebalanceOrders

PlanSpec == PlanInit /\ [][PlanNext]_vars

\* ------------------------------------------------- check_circuit_breakers

\* Equity and prior-day equity (dollars) the account may report: none, a
\* debit, a loss of 3.01, 3.00 and 2.99 percent of 10000, no change, a gain.
EquityValues == {-200, 0, 5000, 9699, 9700, 9701, 10000, 10300}
LastEquityValues == {-100, 0, 100, 5000, 10000, 10300, 20000}

BreakerAccounts ==
    { [portfolio_value |-> 10000, equity |-> eq, last_equity |-> last,
       market_value |-> <<>>] : eq \in EquityValues, last \in LastEquityValues }

\* check_circuit_breakers is about to be called, with any such account.
BreakerInit ==
    /\ RebalanceInit
    /\ FileIdle
    /\ OrderIdle
    /\ broker \in BreakerAccounts
    /\ last_run = 0
    /\ clock = 0
    /\ drift = <<>>
    /\ decision = [needs |-> FALSE, reason |-> [kind |-> "none"]]
    /\ plan = <<>>
    /\ breaker = [triggered |-> "none", counted |-> 0]

\* check_circuit_breakers is called: the result, and the counter
\* circuit_breaker_triggered incremented when it triggers.
CallCheckCircuitBreakers ==
    /\ breaker.triggered = "none"
    /\ breaker' = [triggered |-> BoolText(CircuitBreakerTriggered(broker)),
                   counted |-> IF CircuitBreakerTriggered(broker) THEN 1 ELSE 0]
    /\ UNCHANGED <<broker, last_run, clock, drift, decision, plan, rebalanceVars, fileVars,
                   orderVars>>

BreakerNext == CallCheckCircuitBreakers

BreakerSpec == BreakerInit /\ [][BreakerNext]_vars

\* ------------------------------------------------- the transaction record

\* The orders of an attempt in the order the two loops execute them.
Queue(o) == SellSeq(o) \o BuySeq(o)

\* An attempt is about to call begin_transaction, with any plan.
LedgerInit ==
    /\ RebalanceInit
    /\ OrderIdle
    /\ PlanIdle
    /\ intents \in {CalculateRebalanceOrders(b) : b \in BrokerStates}
    /\ lpc = "begin"
    /\ completed = <<>>
    /\ log_entry = [status |-> "none"]
    /\ log_file = NoFile
    /\ MetricsIdle

\* Both loops have ended.
LogLoopsEnded == lpc = "execute" /\ Len(completed) = Len(Queue(intents))

\* The entry begin_transaction, record_order or complete_transaction hands
\* to _save_log: a new one, or the one loaded from the file with the last
\* result appended or the status set.
EntryToSave ==
    IF lpc = "begin" THEN NewEntry(intents)
    ELSE IF lpc = "record"
    THEN [log_file.entry EXCEPT !.executed_orders = Append(@, completed[Len(completed)])]
    ELSE [log_file.entry EXCEPT
            !.status = TerminalStatus(\A i \in 1..Len(completed) :
                                         completed[i].status = "success")]

\* _save_log, `open(log_file, 'w')`: the file exists and is empty.
LogOpen ==
    /\ lpc \in {"begin", "record"} \/ LogLoopsEnded
    /\ log_entry' = EntryToSave
    /\ log_file' = EmptyFile
    /\ lpc' = IF lpc = "execute" THEN "complete_dump"
              ELSE IF lpc = "begin" THEN "begin_dump" ELSE "record_dump"
    /\ UNCHANGED <<intents, completed, metricsVars, rebalanceVars, orderVars, planVars>>

\* _save_log, json.dump and the close: the file holds the whole entry.
LogDump ==
    /\ lpc \in {"begin_dump", "record_dump", "complete_dump"}
    /\ log_file' = WholeFile(log_entry)
    /\ lpc' = IF lpc = "complete_dump" THEN "done" ELSE "execute"
    /\ UNCHANGED <<intents, completed, log_entry, metricsVars, rebalanceVars, orderVars, planVars>>

\* The next order of the loops is executed and returns its result.
LogExecuteOrder ==
    /\ lpc = "execute"
    /\ Len(completed) < Len(Queue(intents))
    /\ LET t == Queue(intents)[Len(completed) + 1] IN
       \E status \in {"success", "failed"} :
         completed' = Append(completed,
                         OrderResult(t, IF intents[t] < 0 THEN "SELL" ELSE "BUY",
                                     Abs(intents[t]), status))
    /\ lpc' = "record"
    /\ UNCHANGED <<intents, log_entry, log_file, metricsVars, rebalanceVars, orderVars, planVars>>

\* The process is killed between two steps of the attempt.
LogKill ==
    /\ lpc \in {"begin_dump", "execute", "record", "record_dump", "complete_dump"}
    /\ lpc' = "killed"
    /\ UNCHANGED <<intents, completed, log_entry, log_file, metricsVars, rebalanceVars, orderVars,
                   planVars>>

LedgerNext == LogOpen \/ LogDump \/ LogExecuteOrder \/ LogKill

LedgerSpec == LedgerInit /\ [][LedgerNext]_vars

\* --------------------------------------------------------- the metrics file

\* Calls of increment, flush and restarts looked at, over both programs.
MaxIncrements == 3
MaxFlushes == 2
MaxRestarts == 1

\* The counter names as texts.
NameText ==
    ("rebalance_total" :>
        <<"r", "e", "b", "a", "l", "a", "n", "c", "e", "_", "t", "o", "t", "a", "l">>) @@
    ("orders_executed" :>
        <<"o", "r", "d", "e", "r", "s", "_", "e", "x", "e", "c", "u", "t", "e", "d">>)

\* The endings of the keys _load_metrics takes for counters.
counter_suffixes ==
    { <<"_", "t", "o", "t", "a", "l">>,
      <<"_", "s", "u", "c", "c", "e", "s", "s">>,
      <<"_", "f", "a", "i", "l", "e", "d">> }

\* str.endswith.
EndsWith(text, suffix) ==
    /\ Len(suffix) <= Len(text)
    /\ \A j \in 1..Len(suffix) : text[Len(text) - Len(suffix) + j] = suffix[j]

\* _load_metrics: the counters of a readable metrics.json whose key has one
\* of the endings; nothing from a missing or unreadable file.
LoadMetrics ==
    IF target_name = 0 \/ inodes[target_name].content # "whole" THEN NoCounts
    ELSE [n \in CounterNames |->
            IF \E suffix \in counter_suffixes : EndsWith(NameText[n], suffix)
            THEN inodes[target_name].entry[n] ELSE 0]

\* The two programs have started with no metrics file.
MetricsInit ==
    /\ RebalanceInit
    /\ OrderIdle
    /\ PlanIdle
    /\ LogIdle
    /\ counters = [p \in Procs |-> NoCounts]
    /\ mpc = [p \in Procs |-> "run"]
    /\ fd = [p \in Procs |-> 0]
    /\ inodes = <<>>
    /\ tmp_name = 0
    /\ target_name = 0
    /\ last_written = NoCounts
    /\ high = NoCounts
    /\ increments_done = 0
    /\ flushes_started = 0
    /\ restarts_done = 0

notMetrics == <<rebalanceVars, orderVars, planVars, logVars>>

\* metrics.increment(n).
MetricsIncrement(p, n) ==
    /\ mpc[p] = "run"
    /\ increments_done < MaxIncrements
    /\ increments_done' = increments_done + 1
    /\ counters' = [counters EXCEPT ![p][n] = @ + 1]
    /\ UNCHANGED <<mpc, fd, inodes, tmp_name, target_name, last_written, high,
                   flushes_started, restarts_done, notMetrics>>

\* flush, `open(temp_file, 'w')`: the file named metrics.tmp is created, or
\* the one that has the name is emptied, whoever else has it open.
FlushOpen(p) ==
    /\ mpc[p] = "run"
    /\ flushes_started < MaxFlushes
    /\ flushes_started' = flushes_started + 1
    /\ IF tmp_name = 0
       THEN /\ inodes' = Append(inodes, EmptyFile)
            /\ tmp_name' = Len(inodes) + 1
       ELSE /\ inodes' = [inodes EXCEPT ![tmp_name] = EmptyFile]
            /\ tmp_name' = tmp_name
    /\ fd' = [fd EXCEPT ![p] = tmp_name']
    /\ mpc' = [mpc EXCEPT ![p] = "opened"]
    /\ UNCHANGED <<counters, target_name, last_written, high, increments_done,
                   restarts_done, notMetrics>>

\* flush, json.dump and the close: the open file holds the counters.
FlushDump(p) ==
    /\ mpc[p] = "opened"
    /\ inodes' = [inodes EXCEPT ![fd[p]] = WholeFile(counters[p])]
    /\ last_written' = counters[p]
    /\ high' = [n \in CounterNames |->
                    IF counters[p][n] > high[n] THEN counters[p][n] ELSE high[n]]
    /\ fd' = [fd EXCEPT ![p] = 0]
    /\ mpc' = [mpc EXCEPT ![p] = "dumped"]
    /\ UNCHANGED <<counters, tmp_name, target_name, increments_done, flushes_started,
                   restarts_done, notMetrics>>

\* flush, `temp_file.replace(self.metrics_file)`: the file named metrics.tmp
\* takes the name metrics.json; FileNotFoundError when there is none.
FlushReplace(p) ==
    /\ mpc[p] = "dumped"
    /\ IF tmp_name = 0
       THEN UNCHANGED <<tmp_name, target_name>>
       ELSE target_name' = tmp_name /\ tmp_name' = 0
    /\ mpc' = [mpc EXCEPT ![p] = "run"]
    /\ UNCHANGED <<counters, fd, inodes, last_written, high, increments_done,
                   flushes_started, restarts_done, notMetrics>>

\* The program ends and is started again: the collector is constructed anew
\* and loads its state.
MetricsRestart(p) ==
    /\ mpc[p] = "run"
    /\ restarts_done < MaxRestarts
    /\ restarts_done' = restarts_done + 1
    /\ counters' = [counters EXCEPT ![p] = LoadMetrics]
    /\ UNCHANGED <<mpc, fd, inodes, tmp_name, target_name, last_written, high,
                   increments_done, flushes_started, notMetrics>>

MetricsNext ==
    \E p \in Procs :
        \/ \E n \in CounterNames : MetricsIncrement(p, n)
        \/ FlushOpen(p)
        \/ FlushDump(p)
        \/ FlushReplace(p)
        \/ MetricsRestart(p)

MetricsSpec == MetricsInit /\ [][MetricsNext]_vars

\* ------------------------------------------------------------ properties

\* Program p took the step.
StepOf(p) ==
    \/ pc'[p] # pc[p]
    \/ sell_results'[p] # sell_results[p]
    \/ buy_results'[p] # buy_results[p]

\* The transaction record exists and the attempt has not returned.
AttemptPcs == {"execute", "complete", "finish", "handler"}

\* Both loops of p's attempt ran to their end.
AttemptRanThrough(p) == LoopsEnded(p) \/ pc[p] \in {"complete", "finish"}

\* How often ticker t was passed to the executor in p's attempt.
ExecutedCount(p, t) ==
    LET results == sell_results[p] \o buy_results[p]
    IN  Cardinality({i \in 1..Len(results) : results[i].ticker = t})

\* C1: two programs on the same lock path are never inside the protected
\* section together; the second one waits at acquire() or times out there.
LockMutualExclusion ==
    \A p, q \in Procs : p # q => ~(lockCount[p] > 0 /\ lockCount[q] > 0)

\* C1, the case: one program is inside while the other is at acquire().
LockContended ==
    \E p, q \in Procs : p # q /\ lockCount[p] > 0 /\ pc[q] = "acquire"

\* C2: the order-execution and commit sections of two concurrent rebalance
\* attempts never overlap.
RebalanceSectionsDisjoint ==
    \A p, q \in Procs : p # q => ~(pc[p] \in AttemptPcs /\ pc[q] \in AttemptPcs)

\* C3: a program that is back at its caller, by return or by exception, no
\* longer holds the lock, and with every program back the lock is free.
LockReleasedOnExit ==
    /\ \A p \in Procs : pc[p] = "idle" => lockCount[p] = 0
    /\ (\A p \in Procs : pc[p] = "idle") => \A q \in Procs : LockFreeFor(q)

\* C3, the case: run_daily_check left its protected section by an exception.
DailyCheckLeftByException ==
    \E p \in Procs : pc[p] = "idle" /\ entry[p] = "daily" /\ exc[p] = "Exception"

\* C4: once a buy has been passed to the executor, every sell intent of the
\* attempt has a result, whatever the results are.
SellsBeforeBuys ==
    \A p \in Procs :
        buy_results[p] # <<>> =>
            \A t \in Tickers :
                orders[p][t] < 0 =>
                    \E i \in 1..Len(sell_results[p]) : sell_results[p][i].ticker = t

\* C4, the case: two sells, the first of them FAILED, and a buy after them.
BuyAfterFailedSell ==
    \E p \in Procs :
        /\ buy_results[p] # <<>>
        /\ Len(sell_results[p]) = 2
        /\ sell_results[p][1].status = "failed"

\* C5: no intent is passed to the executor twice and no zero intent is passed
\* at all; in an attempt whose loops are not cut short by an exception every
\* non-zero intent is passed exactly once, FAILED results or not.
EveryIntentExecutedOnce ==
    \A p \in Procs :
        /\ \A t \in Tickers :
              ExecutedCount(p, t) <= (IF orders[p][t] # 0 THEN 1 ELSE 0)
        /\ AttemptRanThrough(p) =>
              \A t \in Tickers : orders[p][t] # 0 => ExecutedCount(p, t) = 1

\* C5, the case: three intents, the first sell FAILED, all three executed.
AllExecutedDespiteFailure ==
    \E p \in Procs :
        /\ LoopsEnded(p)
        /\ Len(sell_results[p]) + Len(buy_results[p]) = 3
        /\ sell_results[p][1].status = "failed"

PartialLeavesMarker ==
    [][\A p \in Procs :
        /\ (StepOf(p) /\ ~(LoopsEnded(p) /\ all_success[p])) =>
              /\ markerFile' = markerFile
              /\ backups' = backups
              /\ last_rebalance'[p] = last_rebalance[p]
        /\ (pc[p] = "finish" /\ ~all_success[p] /\ pc'[p] = "idle") =>
              /\ ret'[p] = "false"
              /\ ledger'[tx_id[p]].status = "partial"
              /\ LET results == sell_results[p] \o buy_results[p] IN
                 \A i \in 1..Len(results) :
                    results[i].status = "failed" =>
                        <<results[i].ticker, "partial_failure">>
                            \in ledger'[tx_id[p]].reconciliation_notes.lines
      ]_vars

\* C7, the case: the only attempt so far ended partial and returned false,
\* the marker file still absent.
PartialReturned ==
    \E p \in Procs :
        /\ pc[p] = "idle" /\ ret[p] = "false" /\ exc[p] = "none"
        /\ Len(ledger) = 1 /\ ledger[1].status = "partial"
        /\ \E t \in Tickers :
              <<t, "partial_failure">> \in ledger[1].reconciliation_notes.lines
        /\ markerFile = 0 /\ last_rebalance[p] = 0

\* C8: a dry run passes nothing to the executor, creates no transaction
\* record, leaves the marker and the backups alone, never returns false and,
\* unless reading the broker raised, returns true.
DryRunHasNoEffect ==
    [][\A p \in Procs :
        (dry_run[p] /\ StepOf(p)) =>
            /\ ledger' = ledger /\ markerFile' = markerFile /\ backups' = backups
            /\ last_rebalance'[p] = last_rebalance[p]
            /\ sell_results'[p] = <<>> /\ buy_results'[p] = <<>> /\ tx_id'[p] = 0
            /\ ret'[p] # "false"
            /\ (pc[p] = "plan" /\ entry[p] = "direct" /\ exc'[p] = "none") =>
                  ret'[p] = "true"
      ]_vars

\* C8, the case: a dry run has returned true with no record and no marker.
DryRunReturned ==
    \E p \in Procs :
        /\ pc[p] = "idle" /\ ret[p] = "true"
        /\ ledger = <<>> /\ markerFile = 0 /\ backups = {}

\* C9: no exception raised between the creation of the transaction record
\* and the return of the attempt reaches the caller.
AttemptExceptionsCaught ==
    [][\A p \in Procs :
        (pc[p] \in {"begin_tx"} \cup AttemptPcs /\ pc'[p] = "idle") =>
            exc'[p] = "none"
      ]_vars

\* C10: a program that finds the lock held by another one has no effect: it
\* creates no transaction record, passes no order to the executor and leaves
\* the marker alone.
NoEffectWhileLockUnavailable ==
    [][\A p \in Procs :
        (StepOf(p) /\ ~LockFreeFor(p)) =>
            /\ ledger' = ledger /\ markerFile' = markerFile
            /\ last_rebalance'[p] = last_rebalance[p]
            /\ Len(sell_results'[p]) <= Len(sell_results[p])
            /\ Len(buy_results'[p]) <= Len(buy_results[p])
      ]_vars

\* The notifications p has made in its invocation.
Notified(p) == {notified[p][i] : i \in 1..Len(notified[p])}

\* C11: the lock-failure report is made only by a program that did not get
\* the lock: the step that makes it is taken at acquire(), never by a
\* program inside the protected section.
LockFailureOnlyOnTimeout ==
    [][\A p \in Procs :
        (Len(notified'[p]) > Len(notified[p])
            /\ notified'[p][Len(notified'[p])] = "lock_failed") =>
                pc[p] = "acquire" /\ lockCount[p] = 0
      ]_vars

\* The powers of two up to the n-th: 1, 2, 4, ...
ExponentialPauses(n) == [i \in 1..n |-> 2 ^ (i - 1)]

\* C12: _execute_order fetches and submits at most max_retries + 1 times, and
\* a SUCCESS result is returned by the first attempt that goes through, with
\* the broker's order id and as retry_count the number of failed attempts
\* before it; nothing is fetched, submitted or slept afterwards.
SuccessReturnsAtOnce ==
    /\ quote_fetches <= max_retries + 1
    /\ submissions <= quote_fetches
    /\ order_result.status = "success" =>
          /\ xpc = "returned"
          /\ broker_order \in OrderIds
          /\ order_result.order_id = broker_order
          /\ order_result.retry_count = quote_fetches - 1
          /\ Len(sleeps) = quote_fetches - 1

\* C12, the case: success on the third attempt.
SucceededAfterTwoFailures ==
    order_result.status = "success" /\ quote_fetches = 3 /\ max_retries = 3

\* C13: a non-retryable error ends the call in the pass it occurs in: FAILED
\* with that error's text and retry_count = max_retries, and no sleep after
\* it (the sleeps are those of the failed attempts before it).
NonRetryableStopsAtOnce ==
    retryable = "false" =>
        /\ xpc = "returned"
        /\ order_result.status = "failed"
        /\ order_result.error_message = last_error
        /\ order_result.retry_count = max_retries
        /\ Len(sleeps) = quote_fetches - 1
        /\ broker_order = "none"

\* C13, the case: a non-retryable error on the second of four attempts.
NonRetryableOnSecondAttempt ==
    retryable = "false" /\ quote_fetches = 2 /\ max_retries = 3

\* C14: when the call ends FAILED on a retryable error, every attempt was
\* made: max_retries + 1 of them, with the pauses 1, 2, 4, ... between them
\* and none after the last, and the result carries the last error's text and
\* retry_count = max_retries.
RetryableExhaustsAttempts ==
    (xpc = "returned" /\ retryable = "true" /\ order_result.status = "failed") =>
        /\ quote_fetches = max_retries + 1
        /\ sleeps = ExponentialPauses(max_retries)
        /\ order_result.error_message = last_error
        /\ order_result.retry_count = max_retries

\* C14, the case: four attempts, all failing on retryable errors.
AllFourAttemptsFailed ==
    /\ xpc = "returned" /\ retryable = "true" /\ order_result.status = "failed"
    /\ max_retries = 3 /\ sleeps = <<1, 2, 4>>

\* Two characters equal up to case.
SameLetter(c, d) == c = d \/ <<c, d>> \in CasePairs \/ <<d, c>> \in CasePairs

\* The text contains the token, case-insensitively.
Mentions(text, token) ==
    \E i \in 0..(Len(text) - Len(token)) :
        \A j \in 1..Len(token) : SameLetter(text[i + j], token[j])

\* C15: a message is classified non-retryable exactly when it mentions one
\* of 401, 403, 404, 400, insufficient, invalid symbol, in any case and
\* whatever retryable tokens it also holds; every other message is retryable.
NonRetryableTakesPrecedence ==
    retryable # "none" =>
        retryable = BoolText(~ \E token \in non_retryable_patterns :
                                   Mentions(last_error, token))

\* C15, the case: a message with a retryable and a non-retryable token.
MixedMessageClassified ==
    /\ retryable = "false"
    /\ \E token \in retryable_patterns : Mentions(last_error, token)
    /\ \E token \in non_retryable_patterns : Mentions(last_error, token)

\* The market value, in cents, the broker reports for ticker t: 0 when it
\* holds none or the account is worth nothing.
HeldCents(b, t) ==
    IF b.portfolio_value = 0 \/ t \notin DOMAIN b.market_value THEN 0
    ELSE 100 * b.market_value[t]

\* The tickers whose weight is off target by more than the threshold.
OverThreshold(b) ==
    LET scale == IF b.portfolio_value = 0 THEN 1 ELSE b.portfolio_value
    IN  {t \in Tickers :
            Abs(HeldCents(b, t) - Allocation[t] * scale) > DriftThresholdPct * scale}

\* needs_rebalancing has returned.
Decided == decision.reason.kind # "none"

\* C16: with a marker set and fewer than min_days_between whole days elapsed
\* since it, needs_rebalancing returns false whatever the drift, and its
\* reason cites the whole days elapsed and the minimum.
CooldownSuppressesDrift ==
    (Decided /\ last_run # 0) =>
        \A d \in 0..MaxTicks :
            (/\ d * TicksPerDay <= clock - last_run
             /\ clock - last_run < (d + 1) * TicksPerDay
             /\ d < MinDaysBetween) =>
                /\ ~decision.needs
                /\ decision.reason.kind = "cooldown"
                /\ decision.reason.days_since = d
                /\ decision.reason.min_days = MinDaysBetween

\* C16, the case: part of a day after the marker, with a ticker of the
\* allocation not held at all (a drift of 30 percent).
CooldownWithLargeDrift ==
    /\ Decided /\ last_run # 0 /\ clock - last_run = 1
    /\ broker.portfolio_value > 0
    /\ "TLT" \notin DOMAIN broker.market_value

\* C17: outside the cooldown needs_rebalancing returns true exactly when some
\* ticker's absolute drift is strictly above the threshold, naming exactly
\* those tickers; otherwise false with the within-threshold reason.
DriftDecidesOutsideCooldown ==
    /\ (Decided /\ (last_run = 0 \/ clock - last_run >= MinDaysBetween * TicksPerDay)) =>
          decision.reason.kind \in {"drift", "within"}
    /\ (Decided /\ decision.reason.kind # "cooldown") =>
          /\ decision.needs <=> OverThreshold(broker) # {}
          /\ decision.needs =>
                /\ decision.reason.kind = "drift"
                /\ decision.reason.triggers = OverThreshold(broker)
          /\ ~decision.needs => decision.reason.kind = "within"

\* C17, the case: the largest drift is exactly the threshold.
DriftExactlyAtThreshold ==
    /\ decision.reason.kind = "within"
    /\ broker.portfolio_value > 0
    /\ decision.reason.max_drift = DriftThresholdPct * broker.portfolio_value

\* C18: calculate_drift has an entry for exactly the tickers of the
\* allocation, each the current weight minus the target weight, the current
\* weight being 0 for a ticker the broker does not hold and for every ticker
\* when the portfolio is worth nothing.
DriftIsCurrentMinusTarget ==
    DOMAIN drift # {} =>
        /\ DOMAIN drift = Tickers
        /\ \A t \in Tickers :
              drift[t] = HeldCents(broker, t)
                         - Allocation[t] * (IF broker.portfolio_value = 0 THEN 1
                                            ELSE broker.portfolio_value)

\* C18, the case: a ticker of the allocation the broker does not hold.
DriftOfAbsentTicker ==
    /\ DOMAIN drift # {}
    /\ broker.portfolio_value > 0
    /\ "GLD" \notin DOMAIN broker.market_value
    /\ "VTI" \in DOMAIN broker.market_value
    /\ drift["GLD"] = 0 - Allocation["GLD"] * broker.portfolio_value

\* C19: the drift values sum to the sum of the position weights minus 1.
DriftSumConserved ==
    DOMAIN drift # {} =>
        LET positions == GetCurrentPositions(broker) IN
        SumOver(drift, Tickers)
            = SumOver(positions, DOMAIN positions) - 100 * WeightScale(broker)

\* C20: calculate_rebalance_orders has an entry for exactly the tickers of
\* the allocation: target value minus current value, 0 when that is less
\* than min_trade_usd in absolute value and unchanged when it is equal or
\* more.
OrdersAreTargetMinusCurrent ==
    DOMAIN plan # {} =>
        /\ DOMAIN plan = Tickers
        /\ \A t \in Tickers :
              LET raw == broker.portfolio_value * Allocation[t] - HeldCents(broker, t)
              IN  /\ Abs(raw) < 100 * MinTradeUsd => plan[t] = 0
                  /\ Abs(raw) >= 100 * MinTradeUsd => plan[t] = raw

\* C20, the case: one order of exactly the minimum, kept, and one below it,
\* dropped.
OrderOfExactlyMinTrade ==
    /\ DOMAIN plan # {}
    /\ plan["VTI"] = 100 * MinTradeUsd
    /\ "TLT" \in DOMAIN broker.market_value
    /\ broker.market_value["TLT"] = 3005
    /\ plan["TLT"] = 0

\* The results of the orders the attempt of p has passed to the executor.
Executed(p) == sell_results[p] \o buy_results[p]

\* C21: every order passed to the executor has a positive amount of at least
\* min_trade_usd, with side SELL for a negative intent and BUY for a positive
\* one; a zero intent is never passed on and never appears among the
\* executed orders of a transaction record.
ExecutorCallsAreValid ==
    /\ \A p \in Procs : \A i \in 1..Len(Executed(p)) :
          LET r == Executed(p)[i] IN
          /\ r.amount_usd > 0
          /\ r.amount_usd >= 100 * MinTradeUsd
          /\ r.amount_usd = Abs(orders[p][r.ticker])
          /\ r.side = "SELL" <=> orders[p][r.ticker] < 0
          /\ r.side = "BUY" <=> orders[p][r.ticker] > 0
    /\ \A id \in 1..Len(ledger) : \A i \in 1..Len(ledger[id].executed_orders) :
          LET r == ledger[id].executed_orders[i] IN
          /\ ledger[id].target_orders[r.ticker] # 0
          /\ r.amount_usd >= 100 * MinTradeUsd

\* C21, the case: an attempt with two zero intents and one sell of exactly
\* the minimum has run both loops.
ZeroIntentsSkipped ==
    \E p \in Procs :
        /\ LoopsEnded(p)
        /\ orders[p]["TLT"] = 0 /\ orders[p]["GLD"] = 0
        /\ Len(Executed(p)) = 1
        /\ Executed(p)[1].amount_usd = 100 * MinTradeUsd
        /\ Len(ledger[tx_id[p]].executed_orders) = 1

\* C22: check_circuit_breakers triggers exactly when the prior-day equity is
\* positive and the day's loss is at least max_daily_loss of it; a loss of
\* exactly the threshold triggers, one basis point less does not, and with a
\* prior-day equity of zero or less it returns not-triggered.
BreakerTriggersAtThreshold ==
    breaker.triggered # "none" =>
        LET eq   == broker.equity
            last == broker.last_equity
            \* the loss and the threshold in basis points of `last`, times `last`
            loss_bp  == 10000 * (last - eq)
            limit_bp == 100 * MaxDailyLossPct * last
        IN  /\ breaker.triggered = "true" <=> (last > 0 /\ loss_bp >= limit_bp)
            /\ (last > 0 /\ loss_bp = limit_bp) => breaker.triggered = "true"
            /\ (last > 0 /\ loss_bp = limit_bp - last) => breaker.triggered = "false"
            /\ last <= 0 => breaker.triggered = "false"
            /\ breaker.counted = (IF breaker.triggered = "true" THEN 1 ELSE 0)

\* C22, the case: a loss one basis point short of the threshold.
LossOneBasisPointShort ==
    /\ breaker.triggered = "false"
    /\ broker.last_equity = 10000
    /\ 10000 * (broker.last_equity - broker.equity)
          = (100 * MaxDailyLossPct - 1) * broker.last_equity

\* C23: when the circuit breaker triggers in run_daily_check (the counter
\* circuit_breaker_triggered goes up by one), the invocation ends there: no
\* order is executed, no transaction record is created and the marker, in
\* memory and on disk, is as it was.
BreakerSkipsRebalance ==
    [][\A p \in Procs :
        cb_increments'[p] # cb_increments[p] /\ pc[p] # "idle" =>
            /\ cb_increments'[p] = cb_increments[p] + 1
            /\ pc[p] = "cb_check" /\ pc'[p] = "idle"
            /\ sell_results'[p] = <<>> /\ buy_results'[p] = <<>>
            /\ tx_id'[p] = 0
            /\ ledger' = ledger
            /\ markerFile' = markerFile /\ backups' = backups
            /\ last_rebalance' = last_rebalance
      ]_vars

\* C23, the case: a daily check halted by the breaker, with no cooldown in
\* the way of a rebalance.
BreakerHaltedDailyCheck ==
    \E p \in Procs :
        /\ entry[p] = "daily" /\ pc[p] = "idle"
        /\ cb_increments[p] = 1
        /\ last_rebalance[p] = 0

\* The outcome of the invocation of p that ends in this step, "other" when the
\* step ends none or ends one in another way (a dry run, nothing to do, an
\* exception going on to the caller).
EndingOutcome(p) ==
    IF pc'[p] # "idle" \/ exc'[p] # "none" THEN "other"
    ELSE IF pc[p] = "finish" THEN (IF all_success[p] THEN "success" ELSE "partial")
    ELSE IF pc[p] = "handler" THEN "failed"
    ELSE IF pc[p] = "cb_check" /\ cb_increments'[p] # cb_increments[p]
         THEN "circuit_breaker"
    ELSE IF pc[p] = "acquire" THEN "lock_failed"
    ELSE "other"

\* C24: an invocation that ends in success, partial, failed, halted by the
\* circuit breaker or lock timeout has sent exactly one notification, and
\* that one names the outcome.
OneNotificationPerOutcome ==
    [][\A p \in Procs :
        EndingOutcome(p) # "other" => notified'[p] = <<EndingOutcome(p)>>
      ]_vars

\* C25: the record is on disk, in_progress with no executed orders, before
\* the first order is executed; whenever an order is started the executed
\* orders on disk are the orders completed so far, in order; and a process
\* killed at any point of the attempt leaves a well-formed in_progress record.
RecordSurvivesKill ==
    /\ lpc = "execute" =>
          /\ log_file.content = "whole"
          /\ log_file.entry.status = "in_progress"
          /\ log_file.entry.executed_orders = completed
    /\ lpc = "killed" =>
          /\ log_file.content = "whole"
          /\ log_file.entry.status = "in_progress"

\* C26: a call of _execute_order that has returned, with SUCCESS or FAILED,
\* has incremented orders_executed once, exactly one of orders_success and
\* orders_failed once, and recorded one execution-duration sample.
OrderMetricsEveryCall ==
    xpc = "returned" =>
        /\ order_metrics.orders_executed = 1
        /\ order_metrics.orders_success + order_metrics.orders_failed = 1
        /\ order_metrics.orders_success = 1 <=> order_result.status = "success"
        /\ order_metrics.duration_samples = 1

\* C27: whoever opens the metrics file (or the marker file, written the same
\* way) at any moment, with writers at work in other processes, finds a
\* complete content, never an empty or partial file.
ReaderSeesWholeFile ==
    target_name # 0 => inodes[target_name].content = "whole"

\* C28: of every counter, no flush writes a value smaller than an earlier
\* flush has written, restarts included.
FlushedCountersMonotonic ==
    \A n \in CounterNames : last_written[n] = high[n]

\* C29: run_daily_check never lets an exception through to its caller.
DailyCheckNeverRaises ==
    \A p \in Procs : (entry[p] = "daily" /\ pc[p] = "idle") => exc[p] = "none"

\* The results in `results` are in ascending (direction 1) or descending
\* (direction -1) order of the signed intents of `target`.
InAmountOrder(results, target, direction) ==
    \A i, j \in 1..Len(results) :
        i < j => direction * target[results[i].ticker]
                    <= direction * target[results[j].ticker]

\* The results of `results` with the given side, in their order.
OfSide(results, side) == SelectSeq(results, LAMBDA r : r.side = side)

\* C30: the sell phase passes the orders to the executor in ascending order
\* of signed amount, the buy phase in descending order, and the executed
\* orders of the transaction record are in that same order.
PhasesInAmountOrder ==
    /\ \A p \in Procs :
          /\ InAmountOrder(sell_results[p], orders[p], 1)
          /\ InAmountOrder(buy_results[p], orders[p], -1)
          /\ pc[p] = "execute" => ledger[tx_id[p]].executed_orders = Executed(p)
    /\ \A id \in 1..Len(ledger) :
          LET done == ledger[id].executed_orders IN
          /\ InAmountOrder(OfSide(done, "SELL"), ledger[id].target_orders, 1)
          /\ InAmountOrder(OfSide(done, "BUY"), ledger[id].target_orders, -1)

\* C30, the case: two sells of different amounts and a buy, all recorded.
TwoSellsAndBuyRecorded ==
    \E p \in Procs :
        /\ LoopsEnded(p)
        /\ Len(sell_results[p]) = 2 /\ Len(buy_results[p]) = 1
        /\ orders[p][sell_results[p][1].ticker] < orders[p][sell_results[p][2].ticker]
        /\ Len(ledger[tx_id[p]].executed_orders) = 3

\* C31 as stated: no order is executed in an invocation, run_daily_check
\* or a direct execute_rebalance, unless a circuit-breaker check ran earlier
\* in that invocation and did not trigger.
NoOrderBeforeBreakerCheck ==
    \A p \in Procs : Len(Executed(p)) > 0 => breaker_checked[p] = "clear"

\* C31: the circuit breaker is a pre-flight check of run_daily_check alone.
\* No order is executed in a run_daily_check unless its circuit-breaker
\* check ran and did not trigger; a direct execute_rebalance executes its
\* orders with no circuit-breaker check at all.
BreakerGuardsDailyCheckOnly ==
    \A p \in Procs :
        Len(Executed(p)) > 0 =>
            breaker_checked[p] = IF entry[p] = "daily" THEN "clear" ELSE "none"

DailyOrderAfterClearBreaker ==
    \E p \in Procs :
        /\ entry[p] = "daily"
        /\ breaker_checked[p] = "clear"
        /\ Len(Executed(p)) > 0

\* The daily check of p starts an attempt in this step.
DailyCheckStartsAttempt(p) ==
    pc[p] = "needs_rebal" /\ pc'[p] \in {"plan", "acquire"}

\* No attempt of p that returned true set its marker fewer than
\* min_days_between days ago.
OutsideCooldownOfSuccess(p) ==
    cooldown_from[p] = 0 \/ now - cooldown_from[p] >= MinDaysBetween

\* The first half of C32 on its own: a daily check made within the cooldown
\* of a fully successful attempt of the same program starts no attempt.
CooldownAfterSuccess ==
    [][\A p \in Procs : DailyCheckStartsAttempt(p) => OutsideCooldownOfSuccess(p)]_vars

\* C32: the cooldown is measured only from fully successful attempts. A
\* daily check made within the cooldown of one starts no attempt, and the
\* clock a daily check reads is the one the last fully successful attempt
\* set: an attempt that ended partial or failed has not restarted it.
CooldownOnlyFromSuccess ==
    [][\A p \in Procs :
         /\ DailyCheckStartsAttempt(p) => OutsideCooldownOfSuccess(p)
         /\ pc[p] = "needs_rebal" => last_rebalance[p] = cooldown_from[p]]_vars

\* --------------------------------------------------- _reconcile_orders

\* The longest list of results handed to _reconcile_orders.
MaxResults == 3

\* Intents in cents: a sell, nothing, or a buy of each ticker.
ReconcileTargets == [Tickers -> {-50000, 0, 50000}]

\* The results _execute_order may have returned for an intent of ticker t.
ResultsOf(target, t) ==
    {OrderResult(t, IF target[t] < 0 THEN "SELL" ELSE "BUY", Abs(target[t]), status) :
        status \in {"success", "failed"}}

\* Any list of up to MaxResults results for the tickers of the intents.
ResultLists(target) ==
    LET one == UNION {ResultsOf(target, t) : t \in Tickers}
    IN  UNION {[1..n -> one] : n \in 0..MaxResults}

\* _reconcile_orders is about to be called, with any intents and results.
ReconcileInit ==
    /\ RebalanceInit
    /\ OrderIdle
    /\ PlanIdle
    /\ MetricsIdle
    /\ intents \in ReconcileTargets
    /\ completed \in ResultLists(intents)
    /\ lpc = "reconcile"
    /\ log_entry = [status |-> "none"]
    /\ log_file = NoFile

\* The call of _reconcile_orders.
CallReconcileOrders ==
    /\ lpc = "reconcile"
    /\ log_entry' = [status |-> "reconciled",
                     reconciliation_notes |-> ReconcileOrders(intents, completed)]
    /\ lpc' = "reconciled"
    /\ UNCHANGED <<intents, completed, log_file, metricsVars, rebalanceVars, orderVars,
                   planVars>>

ReconcileNext == CallReconcileOrders

ReconcileSpec == ReconcileInit /\ [][ReconcileNext]_vars

\* The results of ticker t, as positions of the list.
ResultsFor(t) == {i \in 1..Len(completed) : completed[i].ticker = t}

\* The results with this status, as positions of the list.
ResultsWith(status) == {i \in 1..Len(completed) : completed[i].status = status}

\* The classifications written for ticker t.
LinesFor(t) == {l \in log_entry.reconciliation_notes.lines : l[1] = t}

\* C33: _reconcile_orders writes nothing for a zero intent and exactly one
\* classification for a non-zero one: no-execution without a result for the
\* ticker, success when every result of the ticker is SUCCESS,
\* partial-failure otherwise; its summary counts the SUCCESS results and the
\* FAILED results, which together are all the executed orders.
ReconcileClassifiesEveryIntent ==
    lpc = "reconciled" =>
        /\ \A t \in Tickers :
             LinesFor(t) =
                IF intents[t] = 0 THEN {}
                ELSE IF ResultsFor(t) = {} THEN {<<t, "no_execution">>}
                ELSE IF ResultsFor(t) \subseteq ResultsWith("success")
                THEN {<<t, "success">>}
                ELSE {<<t, "partial_failure">>}
        /\ log_entry.reconciliation_notes.lines = UNION {LinesFor(t) : t \in Tickers}
        /\ log_entry.reconciliation_notes.total_success
             = Cardinality(ResultsWith("success"))
        /\ log_entry.reconciliation_notes.total_failed
             = Cardinality(ResultsWith("failed"))
        /\ log_entry.reconciliation_notes.total_success
             + log_entry.reconciliation_notes.total_failed = Len(completed)

ReconciledMixedResults ==
    /\ lpc = "reconciled"
    /\ \E t, u, v \in Tickers :
        /\ intents[t] = 0
        /\ <<u, "no_execution">> \in LinesFor(u)
        /\ <<v, "partial_failure">> \in LinesFor(v)
        /\ ResultsFor(v) \cap ResultsWith("success") # {}
        /\ ResultsFor(t) # {}

\* The OrderResult is one _execute_order may return: SUCCESS with an order
\* id and no error message, or FAILED with an error message and no order id.
WellFormedResult(r) ==
    /\ r.status \in {"success", "failed"}
    /\ r.order_id # "none" <=> r.status = "success"
    /\ r.error_message # <<>> <=> r.status = "failed"

\* C34: whatever max_retries >= 0 and whichever quote fetches and
\* submissions fail, _execute_order makes at most max_retries + 1 attempts,
\* returns, and returns a SUCCESS result with an order id and no error
\* message or a FAILED result with an error message and no order id.
ExecuteOrderAlwaysReturns ==
    /\ [](attempt <= max_retries /\ quote_fetches <= max_retries + 1)
    /\ [](xpc = "returned" => WellFormedResult(order_result))
    /\ [](xpc # "returned" => order_result.status = "none")
    /\ <>(xpc = "returned")

FailedWithoutRetries ==
    /\ xpc = "returned"
    /\ max_retries = 0
    /\ quote_fetches = 1
    /\ order_result.status = "failed"
    /\ order_result.error_message # <<>>
    /\ retryable = "true"

\* The attempt of p ends in this step with execute_rebalance returning
\* false or with its record partial or failed.
AttemptEndsUnsuccessful(p) ==
    /\ pc[p] \in {"finish", "handler"}
    /\ pc'[p] = "idle"
    /\ \/ ret'[p] = "false"
       \/ ledger'[tx_id[p]].status \in {"partial", "failed"}

\* C35: when execute_rebalance returns false, or the attempt's record ends
\* partial or failed, self.last_rebalance and the marker file are what they
\* were before the attempt, also when the failure happened during the commit.
MarkerKeptUnlessSuccess ==
    [][\A p \in Procs :
         AttemptEndsUnsuccessful(p) =>
            /\ last_rebalance'[p] = marker_before[p].memory
            /\ markerFile' = marker_before[p].file]_vars

TerminalStatuses == {"completed", "partial", "failed"}

\* C36: a transaction record's status changes once, from in_progress to
\* completed, partial or failed; no later step of the attempt (the metrics
\* flush, the notification, the exception handler) gives it another status.
TerminalStatusIsFinal ==
    [][\A id \in DOMAIN ledger :
         ledger'[id].status # ledger[id].status =>
            /\ ledger[id].status = "in_progress"
            /\ ledger'[id].status \in TerminalStatuses]_vars

\* C37: the cooldown holds across the programs sharing the state directory.
\* Once one of them has committed a fully successful rebalance and saved the
\* marker, a daily check of the other, already running, starts no attempt
\* fewer than min_days_between days later.
CooldownAcrossProcesses ==
    [][\A p, q \in Procs :
         DailyCheckStartsAttempt(p) /\ markerFile = cooldown_from[q]
            => OutsideCooldownOfSuccess(q)]_vars

\* The attempt of p has no non-zero intent and leaves the loops in this step.
EmptyPlanLeavesLoops(p) ==
    /\ pc[p] = "execute"
    /\ orders[p] = NoOrders
    /\ pc'[p] # "execute"

\* The attempt of p has no non-zero intent and its normal path returns in
\* this step.
EmptyPlanReturns(p) ==
    /\ pc[p] = "finish"
    /\ orders[p] = NoOrders
    /\ pc'[p] = "idle"

====
